---- MODULE Spec2Model ----
(***************************************************************************)
(* Model of the GeoCoding bulk importer (src/cmd/api/main.go, the          *)
(* directory-aware importer starting at line 270) together with the        *)
(* PostgreSQL tables it writes: locations (the store) and processed_files  *)
(* (the ledger).                                                           *)
(*                                                                         *)
(* One invocation of the command is a process p.  Every blocking call of   *)
(* main() (flag parsing, config load, connect, table creation, discovery,  *)
(* ledger check, parse, bulk insert, ledger write, verification, summary)  *)
(* is one action.  A store operation may fail at any time; a failure is a  *)
(* nondeterministic choice inside the action that issues the operation.    *)
(***************************************************************************)
EXTENDS Integers, Sequences, FiniteSets, TLC

\* ---------------------------------------------------------------- bounds
NumFiles == 2        \* number of CSV paths on the file system
MaxRuns  == 2        \* number of invocations of the command in a behaviour

Files == 1..NumFiles           \* file paths, in lexical order
Procs == {1, 2}                \* invocations that may be alive at once
EmptyPath   == 0               \* the flag value ""  (--file not given)
NoDirectory == {0}             \* the flag value ""  (--directory not given)
Dirs == SUBSET Files           \* a directory is the set of .csv paths under it
None == [record_count |-> -1, processed_at |-> -1]   \* no processed_files row

\* ------------------------------------------------- CSV files and parsing
\* A CSV line: its fields, or a line encoding/csv cannot read (bad quoting).
Line(fields) == [fields |-> fields, csvErr |-> FALSE]
BadLine      == [fields |-> <<>>, csvErr |-> TRUE]

Header == Line(<<"prefecture", "municipality", "address1", "address2",
                 "block_lot", "c5", "c6", "c7", "c8", "lat", "lon">>)
Row(pref, lat, lon) ==
    Line(<<pref, "Chiyoda", "Marunouchi", "", "", "x", "x", "x", "x", lat, lon>>)

\* A float64: a finite value counted in units of 1e-7 degree, NaN or an infinity.
Fin(n) == [cls |-> "fin", n |-> n]
NaN    == [cls |-> "nan", n |-> 0]
PosInf == [cls |-> "inf", n |-> 1]
NegInf == [cls |-> "inf", n |-> -1]
Deg(d) == Fin(d * 10000000)

\* Go's a < b on float64: false as soon as one side is NaN
FLess(a, b) ==
    IF a.cls = "nan" \/ b.cls = "nan" THEN FALSE
    ELSE IF a.cls = "inf" THEN a.n < 0 /\ b # a
    ELSE IF b.cls = "inf" THEN b.n > 0
    ELSE a.n < b.n

\* strconv.ParseFloat(s, 64) on the literals that occur in files and requests;
\* every other text ("", "abc", ...) is a syntax error.
FloatLits ==
    [s \in {"35.681236", "139.767125", "34.693737", "135.502165", "35.6812364",
            "139.7671256", "0", "90", "-90", "180", "-180", "95", "-91", "181",
            "-181", "NaN", "Inf", "-Inf"} |->
       CASE s = "35.681236"   -> Fin(356812360)
         [] s = "139.767125"  -> Fin(1397671250)
         [] s = "34.693737"   -> Fin(346937370)
         [] s = "135.502165"  -> Fin(1355021650)
         [] s = "35.6812364"  -> Fin(356812364)
         [] s = "139.7671256" -> Fin(1397671256)
         [] s = "0"    -> Deg(0)
         [] s = "90"   -> Deg(90)
         [] s = "-90"  -> Deg(-90)
         [] s = "180"  -> Deg(180)
         [] s = "-180" -> Deg(-180)
         [] s = "95"   -> Deg(95)
         [] s = "-91"  -> Deg(-91)
         [] s = "181"  -> Deg(181)
         [] s = "-181" -> Deg(-181)
         [] s = "NaN"  -> NaN
         [] s = "Inf"  -> PosInf
         [] s = "-Inf" -> NegInf]

ParseFloat(s) ==
    IF s \in DOMAIN FloatLits
    THEN [ok |-> TRUE,  val |-> FloatLits[s]]
    ELSE [ok |-> FALSE, val |-> Fin(0)]

\* The contents a file can have.
FileEmpty      == [open |-> TRUE, lines |-> <<>>]
FileHeaderOnly == [open |-> TRUE, lines |-> <<Header>>]
FileOneRow     == [open |-> TRUE, lines |-> <<Header, Row("Tokyo", "35.681236", "139.767125")>>]
FileTwoRows    == [open |-> TRUE, lines |-> <<Header, Row("Tokyo", "35.681236", "139.767125"),
                                                      Row("Osaka", "34.693737", "135.502165")>>]
FileShortRow   == [open |-> TRUE, lines |-> <<Header, Row("Tokyo", "35.681236", "139.767125"),
                                                      Line(<<"Osaka", "Kita", "Umeda">>)>>]
FileBadLat     == [open |-> TRUE, lines |-> <<Header, Row("Tokyo", "abc", "139.767125")>>]
FileBadQuote   == [open |-> TRUE, lines |-> <<Header, BadLine>>]
FileUnreadable == [open |-> FALSE, lines |-> <<>>]

SampleFiles == {FileEmpty, FileHeaderOnly, FileOneRow, FileTwoRows,
                FileShortRow, FileBadLat, FileBadQuote, FileUnreadable}

\* the contents the main specification draws from
RunFiles == {FileHeaderOnly, FileOneRow, FileTwoRows, FileShortRow}

ParseOk(recs)        == [err |-> "",   len |-> 0, records |-> recs]
ParseErr(kind, n)    == [err |-> kind, len |-> n, records |-> <<>>]

\* faulty variant: latitude and longitude change places
LocationRecordSwapped(rec, lat, lon) ==
    [Prefecture |-> rec[1], Municipality |-> rec[2], Address1 |-> rec[3],
     Address2 |-> rec[4], BlockLot |-> rec[5], Lat |-> lon, Lon |-> lat]

LocationRecord(rec, lat, lon) ==
    [Prefecture |-> rec[1], Municipality |-> rec[2], Address1 |-> rec[3],
     Address2 |-> rec[4], BlockLot |-> rec[5], Lat |-> lat, Lon |-> lon]

\* the read loop of parseCSV: lines after the header, records so far
RECURSIVE ParseRows(_, _)
ParseRows(lines, records) ==
    IF lines = <<>> THEN ParseOk(records)
    ELSE LET l == Head(lines) IN
         IF l.csvErr THEN ParseErr("failed to read record", 0)
         ELSE LET record == l.fields IN
              IF Len(record) < 11 THEN ParseErr("invalid record length", Len(record))
              ELSE LET lat == ParseFloat(record[10])
                       lon == ParseFloat(record[11]) IN
                   IF ~lat.ok THEN ParseErr("invalid latitude", 0)
                   ELSE IF ~lon.ok THEN ParseErr("invalid longitude", 0)
                   ELSE ParseRows(Tail(lines),
                                  Append(records, LocationRecord(record, lat.val, lon.val)))

\* a parser that skips the rows it cannot use and continues
parseCSVSkipping(c) ==
    IF ~c.open THEN ParseErr("failed to open file", 0)
    ELSE IF c.lines = <<>> \/ c.lines[1].csvErr THEN ParseErr("failed to read header", 0)
    ELSE ParseRows(SelectSeq(Tail(c.lines),
                             LAMBDA l : /\ ~l.csvErr
                                        /\ Len(l.fields) >= 11
                                        /\ ParseFloat(l.fields[10]).ok
                                        /\ ParseFloat(l.fields[11]).ok),
                   <<>>)
parseCSV(c) ==
    IF ~c.open THEN ParseErr("failed to open file", 0)
    ELSE IF c.lines = <<>> \/ c.lines[1].csvErr THEN ParseErr("failed to read header", 0)
    ELSE ParseRows(Tail(c.lines), <<>>)

RECURSIVE SetMax(_)
SetMax(S) == IF S = {} THEN 0
             ELSE LET x == CHOOSE y \in S : TRUE
                      m == SetMax(S \ {x})
                  IN IF x > m THEN x ELSE m

\* the largest number of records one file yields
MaxRows == SetMax({Len(parseCSV(c).records) : c \in SampleFiles})
RowIds  == Files \X (1..MaxRows)     \* a stored row: (file it came from, record index)

\* ------------------------------------------------------ store operations
\* faulty variant: the copy source yields one record too few
insertRecordsShort(st, filePath, records) ==
    [r \in RowIds |-> IF r[1] = filePath /\ r[2] < Len(records)
                      THEN st[r] + 1 ELSE st[r]]

\* COPY locations FROM ... committed: every record of the batch becomes a row
insertRecords(st, filePath, records) ==
    [r \in RowIds |-> IF r[1] = filePath /\ r[2] <= Len(records)
                      THEN st[r] + 1 ELSE st[r]]

\* faulty variant: the rows copied before the failure stay in the table
insertRecordsAbortedPartial(st, filePath, records) ==
    [r \in RowIds |-> IF r[1] = filePath /\ r[2] <= Len(records) /\ r[2] = 1
                      THEN st[r] + 1 ELSE st[r]]

\* COPY locations FROM ... aborted: the statement is rolled back as a whole
insertRecordsAborted(st, filePath, records) == st

\* faulty variant: the lookup reports every path as processed
isFileProcessedAlways(ldg, filePath) == TRUE

\* faulty variant: the lookup never finds the entry
isFileProcessedNever(ldg, filePath) == FALSE

\* SELECT EXISTS(SELECT 1 FROM processed_files WHERE file_path = $1)
isFileProcessed(ldg, filePath) == ldg[filePath] # None

\* faulty variant: ON CONFLICT (file_path) DO UPDATE, the last writer wins
markFileProcessedUpsert(ldg, filePath, recordCount, now) ==
    [ldg EXCEPT ![filePath] = [record_count |-> recordCount, processed_at |-> now]]

\* faulty variant: ON CONFLICT (file_path) DO UPDATE adding the new record count
markFileProcessedAccumulate(ldg, filePath, recordCount, now) ==
    IF ldg[filePath] # None
    THEN [ldg EXCEPT ![filePath].record_count = @ + recordCount]
    ELSE [ldg EXCEPT ![filePath] = [record_count |-> recordCount, processed_at |-> now]]

\* faulty variant: the statement succeeds without adding the entry
markFileProcessedLost(ldg, filePath, recordCount, now) == ldg

\* INSERT INTO processed_files ... ON CONFLICT (file_path) DO NOTHING
markFileProcessed(ldg, filePath, recordCount, now) ==
    IF ldg[filePath] # None THEN ldg
    ELSE [ldg EXCEPT ![filePath] = [record_count |-> recordCount, processed_at |-> now]]

RECURSIVE SumOver(_, _)
SumOver(f, S) == IF S = {} THEN 0
                 ELSE LET x == CHOOSE y \in S : TRUE IN f[x] + SumOver(f, S \ {x})

\* SELECT COUNT(*) FROM locations
CountRows(st) == SumOver(st, RowIds)

\* verifyImport: fault is the query the store fails, "" when it fails none
verifyImport(st, expectedCount, fault) ==
    IF fault = "count" THEN "failed to count records"
    ELSE IF CountRows(st) < expectedCount THEN "record count mismatch"
    ELSE IF fault = "geom" \/ CountRows(st) = 0 THEN "failed to check geom"
    ELSE ""

\* filepath.Walk visits the paths of the directory in lexical order
RECURSIVE findCSVFiles(_)
findCSVFiles(directory) ==
    IF directory = {} THEN <<>>
    ELSE LET m == CHOOSE x \in directory : \A y \in directory : x <= y
         IN <<m>> \o findCSVFiles(directory \ {m})

\* ------------------------------------------------------------------ state
VARIABLES
    content,   \* file system: path -> contents of the file
    store,     \* table locations: stored row -> number of copies
    ledger,    \* table processed_files: path -> entry, or None
    proc,      \* per invocation: position in main() and its local variables
    runs,      \* invocations started so far (also the clock of processed_at)
    history,   \* the invocations that have exited, in order of exit
    call       \* the function or request under test of the input-driven specifications

vars == <<content, store, ledger, proc, runs, history, call>>

NoCall == [op |-> "none"]

NoOutcome == [f \in Files |-> "none"]

Idle == [pc |-> "idle", file |-> EmptyPath, directory |-> NoDirectory,
         files |-> <<>>, idx |-> 0, filePath |-> EmptyPath, records |-> <<>>,
         totalRecords |-> 0, processedFiles |-> 0, failedFiles |-> 0,
         exitCode |-> -1,
         \* bookkeeping of what main() printed and met, not read by main()
         skippedFiles |-> 0, outcome |-> NoOutcome, faulted |-> FALSE,
         run |-> 0, store0 |-> [r \in RowIds |-> 0],
         ledger0 |-> [f \in Files |-> None]]

Init ==
    /\ content \in [Files -> RunFiles]
    /\ store   = [r \in RowIds |-> 0]
    /\ ledger  = [f \in Files |-> None]
    /\ proc    = [p \in Procs |-> Idle]
    /\ runs    = 0
    /\ history = <<>>
    /\ call    = NoCall

\* ------------------------------------------------- steps inside main()
\* os.Exit(code), or the return from main for code 0
Exit(r, code) == [r EXCEPT !.pc = "exited", !.exitCode = code]

\* faulty variant: the file after the next one is started
ContinueAhead(r) ==
    IF r.idx + 1 < Len(r.files)
    THEN [r EXCEPT !.pc = "check", !.idx = r.idx + 2,
                   !.filePath = r.files[r.idx + 2], !.records = <<>>]
    ELSE [r EXCEPT !.pc = "summary", !.idx = Len(r.files) + 1,
                   !.filePath = EmptyPath, !.records = <<>>]

\* `continue` / end of the loop body: the next path of the range, or the summary
Continue(r) ==
    IF r.idx < Len(r.files)
    THEN [r EXCEPT !.pc = "check", !.idx = r.idx + 1,
                   !.filePath = r.files[r.idx + 1], !.records = <<>>]
    ELSE [r EXCEPT !.pc = "summary", !.idx = Len(r.files) + 1,
                   !.filePath = EmptyPath, !.records = <<>>]

\* faulty variant: a failed ledger check is passed over without being counted
OnCheckErrorUncounted(r) ==
    Continue([r EXCEPT !.faulted = TRUE, !.outcome[r.filePath] = "FailedCheck"])

\* faulty variant: a failed ledger check ends the command
OnCheckErrorExit(r) ==
    Exit([r EXCEPT !.failedFiles = @ + 1, !.faulted = TRUE,
                   !.outcome[r.filePath] = "FailedCheck"], 1)

\* isFileProcessed returned an error
OnCheckError(r) ==
    Continue([r EXCEPT !.failedFiles = @ + 1, !.faulted = TRUE,
                       !.outcome[r.filePath] = "FailedCheck"])

\* faulty variant: a skipped file is counted as processed
OnSkipCounted(r) ==
    Continue([r EXCEPT !.skippedFiles = @ + 1, !.processedFiles = @ + 1,
                       !.outcome[r.filePath] = "Skipped"])

\* "Skipping already processed file"
OnSkip(r) ==
    Continue([r EXCEPT !.skippedFiles = @ + 1, !.outcome[r.filePath] = "Skipped"])

\* faulty variant: a parse error leaves the loop (break for continue)
OnParseErrorBreak(r) ==
    [r EXCEPT !.failedFiles = @ + 1, !.outcome[r.filePath] = "FailedParse",
              !.pc = "summary", !.filePath = EmptyPath, !.records = <<>>]

\* parseCSV returned an error
OnParseError(r) ==
    Continue([r EXCEPT !.failedFiles = @ + 1, !.outcome[r.filePath] = "FailedParse"])

\* faulty variant: an insert error leaves the loop (break for continue)
OnInsertErrorBreak(r) ==
    [r EXCEPT !.failedFiles = @ + 1, !.faulted = TRUE,
              !.outcome[r.filePath] = "FailedInsert",
              !.pc = "summary", !.filePath = EmptyPath, !.records = <<>>]

\* insertRecords returned an error
OnInsertError(r) ==
    Continue([r EXCEPT !.failedFiles = @ + 1, !.faulted = TRUE,
                       !.outcome[r.filePath] = "FailedInsert"])

\* faulty variant: totalRecords counts one per file
OnProcessedOne(r, marked) ==
    Continue([r EXCEPT !.totalRecords = @ + 1,
                       !.processedFiles = @ + 1,
                       !.faulted = @ \/ ~marked,
                       !.outcome[r.filePath] = IF marked THEN "Ledgered" ELSE "Inserted"])

\* faulty variant: a failed ledger write also counts the file as failed
OnProcessedStrict(r, marked) ==
    Continue([r EXCEPT !.totalRecords = @ + Len(r.records),
                       !.processedFiles = @ + 1,
                       !.failedFiles = IF marked THEN @ ELSE @ + 1,
                       !.faulted = @ \/ ~marked,
                       !.outcome[r.filePath] = IF marked THEN "Ledgered" ELSE "Inserted"])

\* after markFileProcessed, whether it returned an error (marked = FALSE) or not
OnProcessed(r, marked) ==
    Continue([r EXCEPT !.totalRecords = @ + Len(r.records),
                       !.processedFiles = @ + 1,
                       !.faulted = @ \/ ~marked,
                       !.outcome[r.filePath] = IF marked THEN "Ledgered" ELSE "Inserted"])

Set(p, r)    == proc' = [proc EXCEPT ![p] = r]
Finish(p, r) == /\ proc' = [proc EXCEPT ![p] = r]
                /\ history' = Append(history, r)

\* ---------------------------------------------------------------- actions
\* faulty variant: --file wins when both flags are given
StartLenient(p) ==
    /\ proc[p].pc \in {"idle", "exited"}
    /\ runs < MaxRuns
    /\ runs' = runs + 1
    /\ \E file \in {EmptyPath} \cup Files, directory \in {NoDirectory} \cup Dirs :
         LET r == [Idle EXCEPT !.file = file, !.directory = directory,
                               !.run = runs + 1, !.store0 = store,
                               !.ledger0 = ledger]
         IN IF file = EmptyPath /\ directory = NoDirectory
            THEN Finish(p, Exit(r, 1))
            ELSE Set(p, [r EXCEPT !.pc = "config"]) /\ UNCHANGED history
    /\ UNCHANGED <<call, content, store, ledger>>

\* flag.Parse and the two flag checks
Start(p) ==
    /\ proc[p].pc \in {"idle", "exited"}
    /\ runs < MaxRuns
    /\ runs' = runs + 1
    /\ \E file \in {EmptyPath} \cup Files, directory \in {NoDirectory} \cup Dirs :
         LET r == [Idle EXCEPT !.file = file, !.directory = directory,
                               !.run = runs + 1, !.store0 = store,
                               !.ledger0 = ledger]
         IN IF file = EmptyPath /\ directory = NoDirectory
            THEN Finish(p, Exit(r, 1))
            ELSE IF file # EmptyPath /\ directory # NoDirectory
            THEN Finish(p, Exit(r, 1))
            ELSE Set(p, [r EXCEPT !.pc = "config"]) /\ UNCHANGED history
    /\ UNCHANGED <<call, content, store, ledger>>

\* config.LoadConfig
LoadConfig(p) ==
    /\ proc[p].pc = "config"
    /\ \/ Set(p, [proc[p] EXCEPT !.pc = "connect"]) /\ UNCHANGED history
       \/ Finish(p, Exit(proc[p], 1))
    /\ UNCHANGED <<call, content, store, ledger, runs>>

\* pgx.Connect
Connect(p) ==
    /\ proc[p].pc = "connect"
    /\ \/ Set(p, [proc[p] EXCEPT !.pc = "tables"]) /\ UNCHANGED history
       \/ Finish(p, Exit([proc[p] EXCEPT !.faulted = TRUE], 1))
    /\ UNCHANGED <<call, content, store, ledger, runs>>

\* faulty variant: a failed table creation is reported and the run goes on
CreateTablesLenient(p) ==
    /\ proc[p].pc = "tables"
    /\ \/ Set(p, [proc[p] EXCEPT !.pc = IF proc[p].file # EmptyPath
                                        THEN "file_parse" ELSE "discover"])
       \/ Set(p, [proc[p] EXCEPT !.faulted = TRUE,
                                 !.pc = IF proc[p].file # EmptyPath
                                        THEN "file_parse" ELSE "discover"])
    /\ UNCHANGED <<call, content, store, ledger, runs, history>>

\* createTablesIfNotExists: CREATE TABLE IF NOT EXISTS keeps existing rows
CreateTables(p) ==
    /\ proc[p].pc = "tables"
    /\ \/ Set(p, [proc[p] EXCEPT !.pc = IF proc[p].file # EmptyPath
                                        THEN "file_parse" ELSE "discover"])
          /\ UNCHANGED history
       \/ Finish(p, Exit([proc[p] EXCEPT !.faulted = TRUE], 1))
    /\ UNCHANGED <<call, content, store, ledger, runs>>

\* single file: records, err := parseCSV(*file)
FileParse(p) ==
    /\ proc[p].pc = "file_parse"
    /\ LET res == parseCSV(content[proc[p].file]) IN
         IF res.err # ""
         THEN Finish(p, Exit(proc[p], 1))
         ELSE Set(p, [proc[p] EXCEPT !.pc = "file_insert",
                                     !.filePath = proc[p].file,
                                     !.records = res.records])
              /\ UNCHANGED history
    /\ UNCHANGED <<call, content, store, ledger, runs>>

\* faulty variant: the single-file branch honours the ledger like the
\* directory loop and inserts nothing for a file that has an entry
FileInsertUnlessLedgered(p) ==
    /\ proc[p].pc = "file_insert"
    /\ \/ /\ store' = IF isFileProcessed(ledger, proc[p].filePath) THEN store
                      ELSE insertRecords(store, proc[p].filePath, proc[p].records)
          /\ Set(p, [proc[p] EXCEPT !.pc = "file_verify"])
          /\ UNCHANGED history
       \/ /\ store' = insertRecordsAborted(store, proc[p].filePath, proc[p].records)
          /\ Finish(p, Exit([proc[p] EXCEPT !.faulted = TRUE], 1))
    /\ UNCHANGED <<call, content, ledger, runs>>

\* single file: err = insertRecords(conn, records)
FileInsert(p) ==
    /\ proc[p].pc = "file_insert"
    /\ \/ /\ store' = insertRecords(store, proc[p].filePath, proc[p].records)
          /\ Set(p, [proc[p] EXCEPT !.pc = "file_verify"])
          /\ UNCHANGED history
       \/ /\ store' = insertRecordsAborted(store, proc[p].filePath, proc[p].records)
          /\ Finish(p, Exit([proc[p] EXCEPT !.faulted = TRUE], 1))
    /\ UNCHANGED <<call, content, ledger, runs>>

\* faulty variant: a verified single-file import is entered in the ledger
FileVerifyLedgers(p) ==
    /\ proc[p].pc = "file_verify"
    /\ \E fault \in {"", "count", "geom"} :
         LET err == verifyImport(store, Len(proc[p].records), fault) IN
         IF err # ""
         THEN /\ Finish(p, Exit([proc[p] EXCEPT !.faulted = @ \/ fault # ""], 1))
              /\ ledger' = ledger
         ELSE /\ Finish(p, Exit(proc[p], 0))
              /\ ledger' = markFileProcessed(ledger, proc[p].filePath,
                                             Len(proc[p].records), proc[p].run)
    /\ UNCHANGED <<call, content, store, runs>>

\* single file: err = verifyImport(conn, len(records)), then return
FileVerify(p) ==
    /\ proc[p].pc = "file_verify"
    /\ \E fault \in {"", "count", "geom"} :
         LET err == verifyImport(store, Len(proc[p].records), fault) IN
         IF err # ""
         THEN Finish(p, Exit([proc[p] EXCEPT !.faulted = @ \/ fault # ""], 1))
         ELSE Finish(p, Exit(proc[p], 0))
    /\ UNCHANGED <<call, content, store, ledger, runs>>

\* directory: files, err := findCSVFiles(*directory)
Discover(p) ==
    /\ proc[p].pc = "discover"
    /\ \/ LET files == findCSVFiles(proc[p].directory) IN
          /\ Set(p, Continue([proc[p] EXCEPT !.files = files, !.idx = 0,
                       !.outcome = [f \in Files |-> IF f \in proc[p].directory
                                                    THEN "Discovered" ELSE "none"]]))
          /\ UNCHANGED history
       \/ Finish(p, Exit(proc[p], 1))
    /\ UNCHANGED <<call, content, store, ledger, runs>>

\* directory: processed, err := isFileProcessed(conn, filePath)
Check(p) ==
    /\ proc[p].pc = "check"
    /\ \/ Set(p, OnCheckError(proc[p]))
       \/ IF isFileProcessed(ledger, proc[p].filePath)
          THEN Set(p, OnSkip(proc[p]))
          ELSE Set(p, [proc[p] EXCEPT !.pc = "parse"])
    /\ UNCHANGED <<call, content, store, ledger, runs, history>>

\* faulty variant: a file without data rows is counted as failed
ParseEmptyFails(p) ==
    /\ proc[p].pc = "parse"
    /\ LET res == parseCSV(content[proc[p].filePath]) IN
         IF res.err # "" \/ res.records = <<>>
         THEN Set(p, OnParseError(proc[p]))
         ELSE Set(p, [proc[p] EXCEPT !.pc = "insert", !.records = res.records])
    /\ UNCHANGED <<call, content, store, ledger, runs, history>>

\* directory: records, err := parseCSV(filePath)
Parse(p) ==
    /\ proc[p].pc = "parse"
    /\ LET res == parseCSV(content[proc[p].filePath]) IN
         IF res.err # ""
         THEN Set(p, OnParseError(proc[p]))
         ELSE Set(p, [proc[p] EXCEPT !.pc = "insert", !.records = res.records])
    /\ UNCHANGED <<call, content, store, ledger, runs, history>>

\* directory: err = insertRecords(conn, records)
Insert(p) ==
    /\ proc[p].pc = "insert"
    /\ \/ /\ store' = insertRecords(store, proc[p].filePath, proc[p].records)
          /\ Set(p, [proc[p] EXCEPT !.pc = "mark"])
       \/ /\ store' = insertRecordsAborted(store, proc[p].filePath, proc[p].records)
          /\ Set(p, OnInsertError(proc[p]))
    /\ UNCHANGED <<call, content, ledger, runs, history>>

\* faulty variant: the ledger write that reports an error has left its entry
MarkLeavesEntry(p) ==
    /\ proc[p].pc = "mark"
    /\ ledger' = markFileProcessed(ledger, proc[p].filePath,
                                   Len(proc[p].records), proc[p].run)
    /\ \/ Set(p, OnProcessed(proc[p], TRUE))
       \/ Set(p, OnProcessed(proc[p], FALSE))
    /\ UNCHANGED <<call, content, store, runs, history>>

\* directory: err = markFileProcessed(conn, filePath, len(records)), counters
Mark(p) ==
    /\ proc[p].pc = "mark"
    /\ \/ /\ ledger' = markFileProcessed(ledger, proc[p].filePath,
                                         Len(proc[p].records), proc[p].run)
          /\ Set(p, OnProcessed(proc[p], TRUE))
       \/ /\ ledger' = ledger
          /\ Set(p, OnProcessed(proc[p], FALSE))
    /\ UNCHANGED <<call, content, store, runs, history>>

\* faulty variant: a run with failed files ends with a non-zero exit code
SummaryStrict(p) ==
    /\ proc[p].pc = "summary"
    /\ Finish(p, Exit(proc[p], IF proc[p].failedFiles > 0 THEN 1 ELSE 0))
    /\ UNCHANGED <<call, content, store, ledger, runs>>

\* directory: "Directory import completed: ...", return from main
Summary(p) ==
    /\ proc[p].pc = "summary"
    /\ Finish(p, Exit(proc[p], 0))
    /\ UNCHANGED <<call, content, store, ledger, runs>>

Step(p) ==
    \/ LoadConfig(p) \/ Connect(p) \/ CreateTables(p)
    \/ FileParse(p) \/ FileInsert(p) \/ FileVerify(p)
    \/ Discover(p) \/ Check(p) \/ Parse(p) \/ Insert(p) \/ Mark(p) \/ Summary(p)

\* one invocation after the other
Main == 1
Next == Start(Main) \/ Step(Main)

Spec == Init /\ [][Next]_vars

\* ------------------------------------------------ vocabulary of the claims
WellFormed(f) == parseCSV(content[f]).err = ""
Records(f)    == parseCSV(content[f]).records

\* every record of f is in st exactly n times more often than in st0
Added(st0, st, f, n) ==
    \A i \in 1..Len(Records(f)) : st[<<f, i>>] = st0[<<f, i>>] + n
NoRows == [r \in RowIds |-> 0]

\* r is a directory run that reached its summary / a single-file run that succeeded
DirDone(r)  == r.pc = "exited" /\ r.exitCode = 0 /\ r.file = EmptyPath
FileDone(r) == r.pc = "exited" /\ r.exitCode = 0 /\ r.file # EmptyPath
InLoop(r)   == r.pc \in {"check", "parse", "insert", "mark"}

Failed    == {"FailedCheck", "FailedParse", "FailedInsert"}
Processed == {"Ledgered", "Inserted"}
CountOf(r, S) == Cardinality({f \in Files : r.outcome[f] \in S})

\* the last invocation has just exited and the one before it exited too:
\* both were directory runs over the same file set that reached the summary
TwoDirRuns ==
    /\ proc[Main].pc = "exited"
    /\ Len(history) >= 2
    /\ DirDone(history[Len(history) - 1])
    /\ DirDone(history[Len(history)])
    /\ history[Len(history) - 1].directory = history[Len(history)].directory
FirstRun  == history[Len(history) - 1]
SecondRun == history[Len(history)]

Current(p) ==
    IF InLoop(proc[p]) THEN proc[p].filePath
    ELSE IF proc[p].pc \in {"file_parse", "file_insert", "file_verify"} THEN proc[p].file
    ELSE EmptyPath

\* C2 as stated: whatever the mode, an invocation that is given a file whose
\* ingestion already completed (it has a ledger entry) inserts no rows and
\* leaves the store and the ledger unchanged.
C2_Original ==
    [][\A p \in Procs :
         (Current(p) # EmptyPath /\ ledger[Current(p)] # None /\ proc'[p] # proc[p])
         => (store' = store /\ ledger' = ledger)]_vars

\* C2 amended: in directory mode a file that has a ledger entry is never
\* ingested again: the only step taken on it is the ledger check, which skips
\* it (or counts it failed when the check itself fails); no rows are inserted,
\* the store, the ledger, processedFiles and totalRecords are unchanged.
C2_DirectoryOnce ==
    [][\A p \in Procs :
         (InLoop(proc[p]) /\ ledger[proc[p].filePath] # None /\ proc'[p] # proc[p])
         => LET f == proc[p].filePath IN
            /\ proc[p].pc = "check"
            /\ store' = store /\ ledger' = ledger
            /\ proc'[p].outcome[f] \in {"Skipped", "FailedCheck"}
            /\ proc'[p].outcome[f] = "Skipped" => proc'[p].failedFiles = proc[p].failedFiles
            /\ proc'[p].processedFiles = proc[p].processedFiles
            /\ proc'[p].totalRecords = proc[p].totalRecords]_vars

C2_Witness ==
    \E f \in Files :
        /\ proc[Main].outcome[f] = "Skipped"
        /\ Len(Records(f)) >= 1
        /\ store[<<f, 1>>] = 1
        /\ Len(history) >= 1 /\ history[1].outcome[f] = "Ledgered"

\* C3: a directory run over unledgered files during which no store operation
\* failed ends with processedFiles = number of well-formed files, failedFiles =
\* number of malformed files, every record of every well-formed file stored
\* and no row of a malformed file stored.
C3_FailureIsolation ==
    \A p \in Procs :
        (/\ DirDone(proc[p])
         /\ ~proc[p].faulted
         /\ \A f \in proc[p].directory : proc[p].ledger0[f] = None)
        => /\ proc[p].processedFiles =
                  Cardinality({f \in proc[p].directory : WellFormed(f)})
           /\ proc[p].failedFiles =
                  Cardinality({f \in proc[p].directory : ~WellFormed(f)})
           /\ \A f \in proc[p].directory :
                  IF WellFormed(f)
                  THEN \A i \in 1..Len(Records(f)) : store[<<f, i>>] >= 1
                  ELSE \A i \in 1..MaxRows : store[<<f, i>>] = 0

\* a malformed file came first and the well-formed file after it was ingested
C3_Witness ==
    /\ DirDone(proc[Main]) /\ ~proc[Main].faulted
    /\ proc[Main].files = <<1, 2>>
    /\ ~WellFormed(1) /\ WellFormed(2) /\ Len(Records(2)) = 2
    /\ proc[Main].processedFiles = 1 /\ proc[Main].failedFiles = 1
    /\ store[<<2, 2>>] = 1

\* C4: a ledger entry exists only for a file whose bulk insert succeeded (all
\* its records are in the store), its record count is the number of records
\* inserted for the file, and an existing entry is never modified.
C4_EntryJustified ==
    \A f \in Files :
        ledger[f] # None =>
            /\ WellFormed(f)
            /\ \A i \in 1..Len(Records(f)) : store[<<f, i>>] >= 1
            /\ ledger[f].record_count = Len(Records(f))
C4_EntryFrozen ==
    \A f \in Files : ledger[f] # None => ledger'[f] = ledger[f]
C4_Ledger == []C4_EntryJustified /\ [][C4_EntryFrozen]_vars

C4_Witness ==
    \E f \in Files : ledger[f] # None /\ ledger[f].record_count = 2
                     /\ ledger[f].processed_at = 1 /\ runs = 2

\* C5: a failed bulk insert leaves the store as it was, and a file whose
\* insert failed in one directory run and succeeded in the next has each of
\* its rows stored exactly once by the two runs.
C5_StepAtomic ==
    \A p \in Procs :
        \/ (proc[p].pc = "insert" /\ proc'[p].outcome[proc[p].filePath] = "FailedInsert")
        \/ (proc[p].pc = "file_insert" /\ proc'[p].pc = "exited")
        => store' = store
C5_RetryOnce ==
    (proc'[Main].pc = "exited" /\ proc[Main].pc # "exited" /\ Len(history') >= 2)
    => LET a == history'[Len(history') - 1]
           b == history'[Len(history')]
       IN \A f \in Files :
              (a.outcome[f] = "FailedInsert" /\ b.outcome[f] \in Processed)
              => Added(a.store0, store', f, 1)
C5_AllOrNothing == [][C5_StepAtomic /\ C5_RetryOnce]_vars

C5_Witness ==
    /\ proc[Main].pc = "exited" /\ Len(history) = 2
    /\ \E f \in Files :
          /\ history[1].outcome[f] = "FailedInsert"
          /\ history[2].outcome[f] = "Ledgered"
          /\ Len(Records(f)) = 2 /\ store[<<f, 2>>] = 1

\* what `continue` does to the loop position of r
MovesOn(r, r1) ==
    IF r.idx < Len(r.files)
    THEN r1.pc = "check" /\ r1.idx = r.idx + 1 /\ r1.filePath = r.files[r.idx + 1]
    ELSE r1.pc = "summary"

\* f's last bulk insert in a directory run failed and no run ledgered f since
InsertFailedLast(f) ==
    \E k \in 1..Len(history) :
        /\ history[k].outcome[f] = "FailedInsert"
        /\ \A j \in (k + 1)..Len(history) : history[j].outcome[f] # "Ledgered"

\* C6: a failed bulk insert in directory mode adds one to failedFiles, writes
\* no ledger entry, keeps processedFiles and totalRecords, and moves on to the
\* next file; a later directory run does not skip the file: its ledger check
\* leads to parsing (unless the check itself fails).
C6_FailureStep ==
    \A p \in Procs :
        (proc[p].pc = "insert" /\ proc'[p].pc \notin {"insert", "mark"})
        => /\ proc'[p].failedFiles = proc[p].failedFiles + 1
           /\ ledger' = ledger
           /\ proc'[p].processedFiles = proc[p].processedFiles
           /\ proc'[p].totalRecords = proc[p].totalRecords
           /\ MovesOn(proc[p], proc'[p])
C6_Reattempt ==
    \A p \in Procs :
        (proc[p].pc = "check" /\ InsertFailedLast(proc[p].filePath)
         /\ proc'[p] # proc[p])
        => /\ proc'[p].outcome[proc[p].filePath] # "Skipped"
           /\ \/ proc'[p].pc = "parse" /\ proc'[p].filePath = proc[p].filePath
              \/ proc'[p].outcome[proc[p].filePath] = "FailedCheck"
C6_InsertFailure == [][C6_FailureStep /\ C6_Reattempt]_vars

\* the insert of file 1 failed in the first run, file 2 was still processed,
\* and the second run is parsing file 1 again
C6_Witness ==
    /\ Len(history) = 1
    /\ history[1].outcome[1] = "FailedInsert" /\ history[1].outcome[2] = "Ledgered"
    /\ history[1].failedFiles = 1 /\ history[1].processedFiles = 1
    /\ proc[Main].pc = "parse" /\ proc[Main].filePath = 1

\* C7: when the ledger write fails after a successful bulk insert, failedFiles
\* is unchanged, processedFiles grows by one, totalRecords by the file's record
\* count, and the run moves on to the next file.
C7_Step ==
    \A p \in Procs :
        (/\ proc[p].pc = "mark" /\ proc'[p].pc # "mark"
         /\ ledger'[proc[p].filePath] = None)
        => /\ proc'[p].failedFiles = proc[p].failedFiles
           /\ proc'[p].processedFiles = proc[p].processedFiles + 1
           /\ proc'[p].totalRecords = proc[p].totalRecords + Len(Records(proc[p].filePath))
           /\ MovesOn(proc[p], proc'[p])
C7_LedgerWriteFailure == [][C7_Step]_vars

C7_Witness ==
    /\ proc[Main].pc = "check" /\ proc[Main].filePath = 2
    /\ proc[Main].outcome[1] = "Inserted" /\ ledger[1] = None
    /\ store[<<1, 2>>] = 1
    /\ proc[Main].processedFiles = 1 /\ proc[Main].totalRecords = 2
    /\ proc[Main].failedFiles = 0

\* a single invocation, for the progress claims; a started invocation keeps
\* running: every blocking call of main() returns
StartOnce == runs = 0 /\ Start(Main)
LiveNext  == StartOnce \/ Step(Main)
LiveSpec  == Init /\ [][LiveNext]_vars /\ WF_vars(Step(Main))

\* C8 as stated: a directory run that reached its summary has every discovered
\* file in one of the states Skipped, Ledgered or Failed.
C8_Original ==
    \A p \in Procs :
        DirDone(proc[p]) =>
            \A f \in proc[p].directory :
                proc[p].outcome[f] \in {"Skipped", "Ledgered"} \cup Failed

\* C8 amended: once discovery has succeeded the run always reaches its summary
\* and exits with code 0, every discovered file then being in exactly one of
\* Skipped, Ledgered, Failed or, when its ledger write failed after the
\* insert, Inserted (processed without a ledger entry).
C8_RunCompletes ==
    \A p \in Procs :
        (InLoop(proc[p]) \/ proc[p].pc = "summary")
        ~> (/\ DirDone(proc[p])
            /\ \A f \in Files :
                 IF f \in proc[p].directory
                 THEN proc[p].outcome[f] \in {"Skipped"} \cup Processed \cup Failed
                 ELSE proc[p].outcome[f] = "none"
            /\ \A f \in proc[p].directory :
                 (proc[p].outcome[f] = "Ledgered") => ledger[f] # None)

C8_Witness ==
    /\ DirDone(proc[Main])
    /\ proc[Main].outcome[1] = "FailedCheck"
    /\ proc[Main].outcome[2] = "Inserted"

\* C9: when a directory run reports its summary every discovered file has been
\* counted exactly once: processedFiles + failedFiles + skipped files is the
\* number of discovered files, each counter is the number of files with that
\* outcome, and no file is counted both processed and failed.
C9_Accounted ==
    \A p \in Procs :
        (DirDone(proc[p]) \/ proc[p].pc = "summary") =>
            LET r == proc[p] IN
            /\ r.processedFiles + r.failedFiles + r.skippedFiles = Len(r.files)
            /\ Len(r.files) = Cardinality(r.directory)
            /\ r.processedFiles = CountOf(r, Processed)
            /\ r.failedFiles = CountOf(r, Failed)
            /\ r.skippedFiles = CountOf(r, {"Skipped"})

C9_Witness ==
    /\ DirDone(proc[Main]) /\ Len(proc[Main].files) = 2
    /\ proc[Main].skippedFiles = 1 /\ proc[Main].failedFiles = 1
    /\ Len(history) = 2 /\ history[1].processedFiles = 1

\* C10: single-file mode parses and bulk-inserts the given file whether or not
\* the ledger has an entry for it and never writes the ledger; it reports
\* success only when the store then counts at least the parsed records.
C10_Success ==
    \A p \in Procs :
        FileDone(proc[p]) =>
            LET r == proc[p] IN
            /\ r.records = Records(r.file)
            /\ CountRows(store) >= Len(r.records)
            /\ \A i \in 1..MaxRows :
                 store[<<r.file, i>>] =
                     r.store0[<<r.file, i>>] + (IF i <= Len(r.records) THEN 1 ELSE 0)
            /\ ledger = r.ledger0
C10_Attempt ==
    \A p \in Procs :
        /\ (proc[p].pc = "file_parse" /\ WellFormed(proc[p].file) /\ proc'[p] # proc[p])
           => proc'[p].pc = "file_insert" /\ proc'[p].records = Records(proc[p].file)
        /\ (proc[p].pc \in {"file_parse", "file_insert", "file_verify"})
           => ledger' = ledger
C10_SingleFile == []C10_Success /\ [][C10_Attempt]_vars

\* a single-file run succeeded on a file that already had a ledger entry
C10_Witness ==
    /\ FileDone(proc[Main])
    /\ ledger[proc[Main].file] # None
    /\ Len(proc[Main].records) = 2
    /\ store[<<proc[Main].file, 2>>] = 2

\* invocation p leaves main() in this step
Exits(p) == proc'[p] # proc[p] /\ proc'[p].pc = "exited"

C11_Step ==
    \A p \in Procs :
        /\ Exits(p) =>
             /\ proc'[p].exitCode \in {0, 1}
             /\ proc[p].pc = "summary" => proc'[p].exitCode = 0
             /\ proc'[p].exitCode = 0 =>
                  \/ proc[p].pc = "summary"
                  \/ /\ proc[p].pc = "file_verify"
                     /\ verifyImport(store, Len(proc[p].records), "") = ""
             /\ proc'[p].exitCode = 1 =>
                  proc[p].pc \in {"idle", "exited", "config", "connect", "tables",
                                  "discover", "file_parse", "file_insert",
                                  "file_verify"}
        /\ InLoop(proc[p]) => proc'[p].pc # "exited"
BadFlags(r) ==
    \/ r.file = EmptyPath /\ r.directory = NoDirectory
    \/ r.file # EmptyPath /\ r.directory # NoDirectory

\* C12: with both flags missing or both present the command exits non-zero in
\* its first step: nothing is loaded, connected, created, parsed or inserted,
\* and the store and the ledger are unchanged.
C12_State ==
    \A p \in Procs :
        (proc[p].pc # "idle" /\ BadFlags(proc[p]))
        => /\ proc[p].pc = "exited" /\ proc[p].exitCode # 0
           /\ proc[p].records = <<>> /\ proc[p].files = <<>>
           /\ proc[p].outcome = NoOutcome
C12_Step ==
    \A p \in Procs :
        (proc'[p] # proc[p] /\ BadFlags(proc'[p]))
        => /\ proc[p].pc \in {"idle", "exited"}
           /\ store' = store /\ ledger' = ledger
           /\ store' = proc'[p].store0 /\ ledger' = proc'[p].ledger0
C12_FlagErrors == []C12_State /\ [][C12_Step]_vars

\* both flags were given to the second invocation, after a first one had
\* filled the store
C12_Witness ==
    /\ proc[Main].pc = "exited" /\ proc[Main].exitCode = 1
    /\ proc[Main].file = 1 /\ proc[Main].directory = {1, 2}
    /\ proc[Main].run = 2 /\ store[<<1, 1>>] = 1

\* ------------------------------------------------------------ query side
\* models.Location, and a *models.Location as <<>> (nil) or <<location>>
Location(id, pref, lat, lon) ==
    [ID |-> id, Prefecture |-> pref, Municipality |-> "m", Address1 |-> "a1",
     Address2 |-> "", BlockLot |-> "", Latitude |-> lat, Longitude |-> lon]
Nil == <<>>

Tokyo == Location(1, "Tokyo", Fin(356812360), Fin(1397671250))
Osaka == Location(2, "Osaka", Fin(346937370), Fin(1355021650))
Tables == {{}, {Tokyo}, {Tokyo, Osaka}}      \* contents of table locations

SearchRadius   == 10000    \* metres, ST_DWithin(geom, point, 10000)
MetresPerMilli == 111      \* metres in a thousandth of a degree of arc

Abs(x) == IF x < 0 THEN -x ELSE x
\* distance in metres between a stored point and (lat, lon), to the thousandth
\* of a degree
Distance(l, lat, lon) ==
    MetresPerMilli * (Abs(l.Latitude.n \div 10000 - lat.n \div 10000)
                      + Abs(l.Longitude.n \div 10000 - lon.n \div 10000))

\* the ordering key of geom <-> point among rows within the radius, in units
\* of 1e-7 degree
Apart(l, lat, lon) ==
    Abs(l.Latitude.n - lat.n) + Abs(l.Longitude.n - lon.n)

\* the rows ST_DWithin keeps; a point with a NaN coordinate is near nothing
Near(table, lat, lon) ==
    IF lat.cls = "fin" /\ lon.cls = "fin"
    THEN {l \in table : /\ l.Latitude.cls = "fin" /\ l.Longitude.cls = "fin"
                        /\ Distance(l, lat, lon) <= SearchRadius}
    ELSE {}

\* Repository.FindNearestLocation; fault: the query itself fails
FindNearestLocation(table, lat, lon, fault) ==
    IF fault
    THEN [loc |-> Nil, err |-> "repository: failed to execute spatial query"]
    ELSE LET near == Near(table, lat, lon)
         IN IF near = {}
            THEN [loc |-> Nil, err |-> "repository: no location found near coordinates"]
            ELSE [loc |-> <<CHOOSE l \in near : \A m \in near :
                                \/ Apart(l, lat, lon) < Apart(m, lat, lon)
                                \/ /\ Apart(l, lat, lon) = Apart(m, lat, lon)
                                   /\ l.ID <= m.ID>>,
                  err |-> ""]

\* Repository.SearchLocationsByText; rows: what the ranked query yields
SearchLocationsByText(rows, query, fault) ==
    IF fault
    THEN [locations |-> <<>>, err |-> "repository: failed to execute search query"]
    ELSE [locations |-> rows, err |-> ""]

\* ReverseGeoCodeService.ReverseGeocode
ServiceReverseGeocode(table, lat, lon, fault) ==
    IF FLess(lat, Deg(-90)) \/ FLess(Deg(90), lat)
    THEN [loc |-> Nil, err |-> "service: invalid latitude", repoCalls |-> 0]
    ELSE IF FLess(lon, Deg(-180)) \/ FLess(Deg(180), lon)
    THEN [loc |-> Nil, err |-> "service: invalid longitude", repoCalls |-> 0]
    ELSE LET res == FindNearestLocation(table, lat, lon, fault) IN
         IF res.err # ""
         THEN [loc |-> Nil, err |-> "service: failed to find nearest location",
               repoCalls |-> 1]
         ELSE [loc |-> res.loc, err |-> "", repoCalls |-> 1]

\* GeoCodeService.Geocode
ServiceGeocode(rows, address, fault) ==
    IF address = ""
    THEN [locations |-> <<>>, err |-> "service: address cannot be empty", repoCalls |-> 0]
    ELSE LET res == SearchLocationsByText(rows, address, fault) IN
         IF res.err # ""
         THEN [locations |-> <<>>, err |-> "service: failed to search locations",
               repoCalls |-> 1]
         ELSE [locations |-> res.locations, err |-> "", repoCalls |-> 1]

Response(status, error, data, svcCalls, repoCalls) ==
    [status |-> status, error |-> error, data |-> data,
     svcCalls |-> svcCalls, repoCalls |-> repoCalls]

\* ReverseGeocodeHandler.ReverseGeocode
HandlerReverseGeocode(table, latStr, lonStr, fault) ==
    IF latStr = "" \/ lonStr = ""
    THEN Response(400, "missing required query parameters 'lat' and 'lon'", <<>>, 0, 0)
    ELSE IF ~ParseFloat(latStr).ok
    THEN Response(400, "invalid latitude format", <<>>, 0, 0)
    ELSE IF ~ParseFloat(lonStr).ok
    THEN Response(400, "invalid longitude format", <<>>, 0, 0)
    ELSE LET res == ServiceReverseGeocode(table, ParseFloat(latStr).val,
                                          ParseFloat(lonStr).val, fault) IN
         IF res.err # ""
         THEN Response(500, "internal server error", <<>>, 1, res.repoCalls)
         ELSE IF res.loc = Nil
         THEN Response(404, "no address found near the specified coordinates",
                       <<>>, 1, res.repoCalls)
         ELSE Response(200, "", res.loc, 1, res.repoCalls)

\* a handler that treats an empty result as not found
HandlerGeoCodeNotFound(rows, query, fault) ==
    IF query = ""
    THEN Response(400, "missing required query parameter 'q'", <<>>, 0, 0)
    ELSE LET res == ServiceGeocode(rows, query, fault) IN
         IF res.err # ""
         THEN Response(500, "internal server error", <<>>, 1, res.repoCalls)
         ELSE IF res.locations = <<>>
         THEN Response(404, "not found", <<>>, 1, res.repoCalls)
         ELSE Response(200, "", res.locations, 1, res.repoCalls)

\* GeoCodeHandler.GeoCode
HandlerGeoCode(rows, query, fault) ==
    IF query = ""
    THEN Response(400, "missing required query parameter 'q'", <<>>, 0, 0)
    ELSE LET res == ServiceGeocode(rows, query, fault) IN
         IF res.err # ""
         THEN Response(500, "internal server error", <<>>, 1, res.repoCalls)
         ELSE Response(200, "", res.locations, 1, res.repoCalls)

\* inputs of the query side
CoordTexts == {"", "abc", "0", "35.681236", "139.767125", "90", "-90", "180",
               "-180", "95", "-91", "181", "-181", "NaN", "Inf"}
Coords     == {FloatLits[t] : t \in CoordTexts \cap DOMAIN FloatLits}
QueryTexts == {"", "Tokyo", "Osaka"}
RowLists   == {<<>>, <<Tokyo>>, <<Tokyo, Osaka>>, <<Osaka, Tokyo>>}

\* GET /reverse-geocode?lat=..&lon=..
GetReverseGeocode ==
    /\ call = NoCall
    /\ \E table \in Tables, latStr \in CoordTexts, lonStr \in CoordTexts,
          fault \in BOOLEAN :
         call' = [op |-> "GET /reverse-geocode", table |-> table, lat |-> latStr,
                  lon |-> lonStr, fault |-> fault,
                  res |-> HandlerReverseGeocode(table, latStr, lonStr, fault)]
    /\ UNCHANGED <<content, store, ledger, proc, runs, history>>

\* GET /geocode?q=..
GetGeocode ==
    /\ call = NoCall
    /\ \E rows \in RowLists, query \in QueryTexts, fault \in BOOLEAN :
         call' = [op |-> "GET /geocode", rows |-> rows, q |-> query,
                  fault |-> fault, res |-> HandlerGeoCode(rows, query, fault)]
    /\ UNCHANGED <<content, store, ledger, proc, runs, history>>

\* a direct call of ReverseGeoCodeService.ReverseGeocode
CallReverseGeocode ==
    /\ call = NoCall
    /\ \E table \in Tables, lat \in Coords, lon \in Coords, fault \in BOOLEAN :
         call' = [op |-> "ReverseGeocode", table |-> table, lat |-> lat,
                  lon |-> lon, fault |-> fault,
                  res |-> ServiceReverseGeocode(table, lat, lon, fault)]
    /\ UNCHANGED <<content, store, ledger, proc, runs, history>>

\* a direct call of GeoCodeService.Geocode
CallGeocode ==
    /\ call = NoCall
    /\ \E rows \in RowLists, address \in QueryTexts, fault \in BOOLEAN :
         call' = [op |-> "Geocode", rows |-> rows, address |-> address,
                  fault |-> fault, res |-> ServiceGeocode(rows, address, fault)]
    /\ UNCHANGED <<content, store, ledger, proc, runs, history>>

ApiInit ==
    /\ content = [f \in Files |-> FileHeaderOnly]
    /\ store   = [r \in RowIds |-> 0]
    /\ ledger  = [f \in Files |-> None]
    /\ proc    = [p \in Procs |-> Idle]
    /\ runs    = 0
    /\ history = <<>>
    /\ call    = NoCall
ApiNext == GetReverseGeocode \/ GetGeocode \/ CallReverseGeocode \/ CallGeocode
ApiSpec == ApiInit /\ [][ApiNext]_vars

\* ------------------------------------------------------------ claims on the query side
\* v is a finite number within [-limit, limit] degrees
InRange(v, limit) ==
    v.cls = "fin" /\ -limit * 10000000 <= v.n /\ v.n <= limit * 10000000
\* both parameters present, numeric and in range
ValidCoords(latStr, lonStr) ==
    /\ latStr # "" /\ lonStr # ""
    /\ ParseFloat(latStr).ok /\ ParseFloat(lonStr).ok
    /\ InRange(ParseFloat(latStr).val, 90)
    /\ InRange(ParseFloat(lonStr).val, 180)

\* C13: reverse geocoding end to end gives "no match" (nil location without
\* error from the service, 404 from the handler) when no location lies within
\* the search radius, and that outcome differs from a store failure's (error,
\* 500).
C13_NoMatch ==
    /\ (/\ call.op = "GET /reverse-geocode"
        /\ ValidCoords(call.lat, call.lon)
        /\ ~call.fault
        /\ Near(call.table, ParseFloat(call.lat).val, ParseFloat(call.lon).val) = {})
       => /\ call.res.status = 404
          /\ call.res.status #
                HandlerReverseGeocode(call.table, call.lat, call.lon, TRUE).status
    /\ (/\ call.op = "ReverseGeocode"
        /\ InRange(call.lat, 90) /\ InRange(call.lon, 180)
        /\ ~call.fault
        /\ Near(call.table, call.lat, call.lon) = {})
       => /\ call.res.err = ""
          /\ call.res.loc = Nil

\* C14: GET /reverse-geocode answers 400 whenever lat or lon is missing, not a
\* number or out of range, and answers 500 only when the store query itself
\* fails.
C14_BadRequest ==
    call.op = "GET /reverse-geocode"
    => /\ ~ValidCoords(call.lat, call.lon) => call.res.status = 400
       /\ call.res.status = 500 => call.fault

\* C15: the services reject invalid input before any repository call (empty
\* text; latitude outside [-90,90] or longitude outside [-180,180]), and every
\* in-range input, boundaries included, makes exactly one repository call.
C15_ValidateFirst ==
    /\ call.op = "Geocode"
       => IF call.address = ""
          THEN call.res.err # "" /\ call.res.repoCalls = 0
          ELSE call.res.repoCalls = 1
    /\ call.op = "ReverseGeocode"
       => IF InRange(call.lat, 90) /\ InRange(call.lon, 180)
          THEN call.res.repoCalls = 1
          ELSE call.res.err # "" /\ call.res.repoCalls = 0

\* C16: ReverseGeocode with latitude 0 and longitude 0 returns an error and
\* does not call the repository.
C16_ZeroZero ==
    (call.op = "ReverseGeocode" /\ call.lat = Deg(0) /\ call.lon = Deg(0))
    => call.res.err # "" /\ call.res.repoCalls = 0

\* C17: GET /geocode with a missing or empty q answers 400 without calling the
\* service; otherwise a successful search answers 200 with exactly the rows of
\* the repository in their order (no row at all is still a 200), and a failed
\* search answers 500.
C17_Forward ==
    call.op = "GET /geocode"
    => /\ call.q = "" => call.res.status = 400 /\ call.res.svcCalls = 0
       /\ (call.q # "" /\ ~call.fault)
          => /\ call.res.status = 200
             /\ call.res.data = call.rows
             /\ call.res.svcCalls = 1 /\ call.res.repoCalls = 1
       /\ (call.q # "" /\ call.fault) => call.res.status = 500
C17_Witness ==
    /\ call.op = "GET /geocode"
    /\ call.q = "Osaka" /\ ~call.fault
    /\ call.res.status = 200
    /\ call.res.data = <<Osaka, Tokyo>>

\* ------------------------------------------------------------ one file through parse, insert, query
MaxDataRows == 2      \* data rows of an input file

\* the data lines an input file is made of
RowKinds ==
    {Row("Tokyo", "35.681236", "139.767125"),
     Row("Osaka", "34.693737", "135.502165"),
     Row("Tokyo", "35.6812364", "139.7671256"),
     Row("Tokyo", "95", "139.767125"),
     Row("Tokyo", "NaN", "139.767125"),
     Row("Tokyo", "35.681236", "Inf"),
     Row("Tokyo", "abc", "139.767125"),
     Row("Tokyo", "35.681236", ""),
     Line(<<"Osaka", "Kita", "Umeda", "1-2", "3", "p", "q", "r", "s",
            "34.693737", "135.502165", "extra", "35.681236">>),
     Line(<<"Osaka", "Kita", "Umeda">>),
     Line(<<"Osaka", "Kita", "Umeda", "", "", "x", "x", "x", "x", "34.693737">>),
     BadLine}

\* what the first line of an input file can be: the usual header, a line that
\* looks like a data row, a short line
FirstLines ==
    {Header, Row("Tokyo", "35.681236", "139.767125"), Line(<<"lat,lon">>)}

RECURSIVE SeqsUpTo(_, _)
SeqsUpTo(S, n) ==
    IF n = 0 THEN {<<>>}
    ELSE LET shorter == SeqsUpTo(S, n - 1) IN
         shorter \cup {Append(q, x) : q \in shorter, x \in S}

InputFiles ==
    {FileEmpty, FileBadQuote, FileUnreadable}
    \cup {[open |-> TRUE, lines |-> <<first>> \o rows] :
             first \in FirstLines, rows \in SeqsUpTo(RowKinds, MaxDataRows)}

\* fmt.Sprintf("%f", v) read back as a number: v rounded to 6 decimals
Sprintf6(v) ==
    IF v.cls # "fin" THEN v
    ELSE IF v.n >= 0 THEN Fin(((v.n + 5) \div 10) * 10)
    ELSE Fin(-(((-v.n + 5) \div 10) * 10))

\* the geometry SRID=4326;POINT(x y)
Point(x, y) == [x |-> x, y |-> y]
ST_X(geom) == geom.x
ST_Y(geom) == geom.y

\* the row insertRecords hands to CopyFrom for record r
CopyRow(r) ==
    [prefecture |-> r.Prefecture, municipality |-> r.Municipality,
     address_1 |-> r.Address1, address_2 |-> r.Address2,
     block_lot |-> r.BlockLot, geom |-> Point(Sprintf6(r.Lon), Sprintf6(r.Lat))]

\* the SELECT list of the repository's queries, scanned into a models.Location
ScanLocation(id, row) ==
    [ID |-> id, Prefecture |-> row.prefecture, Municipality |-> row.municipality,
     Address1 |-> row.address_1, Address2 |-> row.address_2,
     BlockLot |-> row.block_lot,
     Latitude |-> ST_Y(row.geom), Longitude |-> ST_X(row.geom)]

\* table locations as the repository sees it
Scanned(rows) == {ScanLocation(i, rows[i]) : i \in 1..Len(rows)}

NoResult == [loc |-> Nil, err |-> ""]
Pipeline(op, file, parsed, rows, row, found) ==
    [op |-> op, file |-> file, parsed |-> parsed, rows |-> rows, row |-> row,
     found |-> found]

\* parseCSV(filePath)
DoParse ==
    /\ call.op = "file"
    /\ call' = Pipeline("parsed", call.file, parseCSV(call.file), <<>>, 0, NoResult)
    /\ UNCHANGED <<content, store, ledger, proc, runs, history>>

\* insertRecords(conn, records) into an empty table; the COPY may fail as a whole
DoInsert ==
    /\ call.op = "parsed"
    /\ call.parsed.err = ""
    /\ \E fault \in BOOLEAN :
         call' = IF fault
                 THEN Pipeline("insert failed", call.file, call.parsed, <<>>, 0, NoResult)
                 ELSE Pipeline("inserted", call.file, call.parsed,
                               [i \in 1..Len(call.parsed.records) |->
                                   CopyRow(call.parsed.records[i])], 0, NoResult)
    /\ UNCHANGED <<content, store, ledger, proc, runs, history>>

\* FindNearestLocation at the coordinates record i was parsed with
DoQuery ==
    /\ call.op = "inserted"
    /\ \E i \in 1..Len(call.rows) :
         call' = Pipeline("queried", call.file, call.parsed, call.rows, i,
                          FindNearestLocation(Scanned(call.rows),
                                              call.parsed.records[i].Lat,
                                              call.parsed.records[i].Lon, FALSE))
    /\ UNCHANGED <<content, store, ledger, proc, runs, history>>

ParseInit ==
    /\ content = [f \in Files |-> FileHeaderOnly]
    /\ store   = [r \in RowIds |-> 0]
    /\ ledger  = [f \in Files |-> None]
    /\ proc    = [p \in Procs |-> Idle]
    /\ runs    = 0
    /\ history = <<>>
    /\ \E c \in InputFiles : call = Pipeline("file", c, ParseOk(<<>>), <<>>, 0, NoResult)
ParseNext == DoParse \/ DoInsert \/ DoQuery
ParseSpec == ParseInit /\ [][ParseNext]_vars

\* ------------------------------------------------------------ claims on parse, insert, query
\* the data lines of the input file
DataLines == IF call.file.lines = <<>> THEN <<>> ELSE Tail(call.file.lines)
ShortLine(l)    == ~l.csvErr /\ Len(l.fields) < 11
BadNumberLine(l) ==
    /\ ~l.csvErr /\ Len(l.fields) >= 11
    /\ ~(ParseFloat(l.fields[10]).ok /\ ParseFloat(l.fields[11]).ok)
\* a row parseCSV turns into a record
ParsableLine(l) == ~l.csvErr /\ ~ShortLine(l) /\ ~BadNumberLine(l)
\* a well-formed row: parsable, with finite coordinates in range
WellFormedLine(l) ==
    /\ ParsableLine(l)
    /\ InRange(ParseFloat(l.fields[10]).val, 90)
    /\ InRange(ParseFloat(l.fields[11]).val, 180)

\* C18: every record handed to the bulk insert, and every row it stores, has a
\* finite latitude within [-90,90] and a finite longitude within [-180,180].
C18_FiniteInRange ==
    call.op \in {"inserted", "insert failed", "queried"}
    => /\ \A i \in 1..Len(call.parsed.records) :
            /\ InRange(call.parsed.records[i].Lat, 90)
            /\ InRange(call.parsed.records[i].Lon, 180)
       /\ \A i \in 1..Len(call.rows) :
            /\ InRange(ST_Y(call.rows[i].geom), 90)
            /\ InRange(ST_X(call.rows[i].geom), 180)

\* C19: if any data row of a readable file has fewer than 11 columns or a
\* latitude/longitude column that is not a number, parseCSV returns an error and
\* no record, whatever rows precede or follow it; the error for a short row
\* carries that row's length.
C19_FailFast ==
    (call.op = "parsed" /\ call.file.open /\ call.file.lines # <<>>
        /\ ~call.file.lines[1].csvErr)
    => /\ (\E i \in 1..Len(DataLines) :
              ShortLine(DataLines[i]) \/ BadNumberLine(DataLines[i]))
          => call.parsed.err # "" /\ call.parsed.records = <<>>
       /\ \A i \in 1..Len(DataLines) :
            (/\ ShortLine(DataLines[i])
             /\ \A j \in 1..(i - 1) : ParsableLine(DataLines[j]))
            => /\ call.parsed.err = "invalid record length"
               /\ call.parsed.len = Len(DataLines[i].fields)
       /\ call.parsed.err = "invalid record length"
          => \E i \in 1..Len(DataLines) :
                /\ ShortLine(DataLines[i])
                /\ call.parsed.len = Len(DataLines[i].fields)
C19_Witness ==
    /\ call.op = "parsed"
    /\ Len(DataLines) = 2
    /\ ParsableLine(DataLines[1])
    /\ Len(DataLines[2].fields) = 10
    /\ call.parsed.err = "invalid record length"
    /\ call.parsed.len = 10
    /\ call.parsed.records = <<>>

\* C20: a well-formed row that was parsed and inserted is found again by a
\* query at its coordinates with the prefecture, municipality, address lines,
\* latitude and longitude of the row.
C20_RoundTrip ==
    (call.op = "queried" /\ WellFormedLine(DataLines[call.row]))
    => /\ call.found.err = ""
       /\ call.found.loc # Nil
       /\ LET loc == call.found.loc[1]
              f   == DataLines[call.row].fields
          IN /\ loc.Prefecture = f[1]
             /\ loc.Municipality = f[2]
             /\ loc.Address1 = f[3]
             /\ loc.Address2 = f[4]
             /\ loc.Latitude = ParseFloat(f[10]).val
             /\ loc.Longitude = ParseFloat(f[11]).val

\* ------------------------------------------------------------ external cancellation
\* main() installs no signal handler and passes context.Background() to every
\* store call, so a SIGINT or SIGTERM ends the process at once (exit status 2
\* of the Go runtime).  A statement already sent to the server is outside the
\* program's control: the server completes it or rolls it back as a whole.
SignalExit == 2

Cancel(p) ==
    /\ proc[p].pc \notin {"idle", "exited"}
    /\ \/ /\ proc[p].pc \in {"insert", "file_insert"}
          /\ store' \in {insertRecordsAborted(store, proc[p].filePath, proc[p].records),
                         insertRecords(store, proc[p].filePath, proc[p].records)}
          /\ ledger' = ledger
       \/ /\ proc[p].pc = "mark"
          /\ ledger' \in {ledger, markFileProcessed(ledger, proc[p].filePath,
                                                    Len(proc[p].records), proc[p].run)}
          /\ store' = store
       \/ /\ proc[p].pc \notin {"insert", "file_insert", "mark"}
          /\ store' = store /\ ledger' = ledger
    /\ Finish(p, Exit(proc[p], SignalExit))
    /\ UNCHANGED <<call, content, runs>>

CancelNext == StartOnce \/ Step(Main) \/ Cancel(Main)
CancelSpec == Init /\ [][CancelNext]_vars

Cancelled(p) == proc[p].pc # "exited" /\ proc'[p].pc = "exited"
                /\ proc'[p].exitCode = SignalExit

\* C21: a cancellation signal during a directory run aborts the in-flight store
\* operation of the current file (the store and the ledger stay as they were)
\* and no further file is started; every file already ledgered keeps its ledger
\* entry and its rows.
C21_Cancellation ==
    [][\A p \in Procs :
         (Cancelled(p) /\ InLoop(proc[p]))
         => /\ store' = store /\ ledger' = ledger
            /\ proc'[p].idx = proc[p].idx
            /\ \A f \in Files :
                 ledger[f] # None
                 => /\ ledger'[f] = ledger[f]
                    /\ \A i \in 1..Len(Records(f)) : store'[<<f, i>>] >= 1]_vars

\* C22: in directory mode the ledger check answers true exactly when the path
\* has a ledger entry, and a skipped file has no effect: it is neither parsed
\* nor inserted, the store and the ledger are unchanged and processedFiles,
\* failedFiles and totalRecords keep their values.
C22_Step ==
    \A p \in Procs :
        (proc[p].pc = "check" /\ proc'[p] # proc[p])
        => LET f == proc[p].filePath IN
           /\ proc'[p].outcome[f] \in {"Skipped", "FailedCheck", "Discovered"}
           /\ proc'[p].outcome[f] = "Skipped"
              => /\ isFileProcessed(ledger, f) /\ ledger[f] # None
                 /\ proc'[p].pc \in {"check", "summary"}
                 /\ proc'[p].records = <<>>
                 /\ store' = store /\ ledger' = ledger
                 /\ proc'[p].processedFiles = proc[p].processedFiles
                 /\ proc'[p].failedFiles = proc[p].failedFiles
                 /\ proc'[p].totalRecords = proc[p].totalRecords
                 /\ proc'[p].skippedFiles = proc[p].skippedFiles + 1
           /\ proc'[p].outcome[f] = "Discovered"
              => /\ ~isFileProcessed(ledger, f) /\ ledger[f] = None
                 /\ proc'[p].pc = "parse" /\ proc'[p].filePath = f
C22_SkipNoEffect == [][C22_Step]_vars
\* a run skipped a ledgered file with two stored records and went on to ingest
\* the next one
C22_Witness ==
    /\ proc[Main].outcome[1] = "Skipped"
    /\ proc[Main].outcome[2] = "Ledgered"
    /\ ledger[1] # None /\ ledger[1].processed_at = 1 /\ proc[Main].run = 2
    /\ Len(Records(1)) = 2 /\ store[<<1, 2>>] = 1
    /\ proc[Main].processedFiles = 1 /\ proc[Main].failedFiles = 0

\* ------------------------------------------------------------ the ledger write on its own
\* the states table processed_files can be in
LedgerEntries == [record_count : 0..MaxRows, processed_at : 1..MaxRuns]
Ledgers       == [Files -> {None} \cup LedgerEntries]

LedgerCall(op, ldg, before, filePath, recordCount, err) ==
    [op |-> op, ldg |-> ldg, before |-> before, filePath |-> filePath,
     recordCount |-> recordCount, err |-> err]

\* markFileProcessed(conn, filePath, recordCount): the Exec fails, or the
\* INSERT ... ON CONFLICT DO NOTHING is applied
DoMark ==
    /\ call.op \in {"ledger", "markFileProcessed"}
    /\ \E filePath \in Files, recordCount \in 0..MaxRows, now \in 1..MaxRuns :
         \/ call' = LedgerCall("markFileProcessed",
                               markFileProcessed(call.ldg, filePath, recordCount, now),
                               call.ldg, filePath, recordCount, "")
         \/ call' = LedgerCall("markFileProcessed", call.ldg, call.ldg, filePath,
                               recordCount, "failed to mark file as processed")
    /\ UNCHANGED <<content, store, ledger, proc, runs, history>>

LedgerInit ==
    /\ content = [f \in Files |-> FileHeaderOnly]
    /\ store   = [r \in RowIds |-> 0]
    /\ ledger  = [f \in Files |-> None]
    /\ proc    = [p \in Procs |-> Idle]
    /\ runs    = 0
    /\ history = <<>>
    /\ \E ldg \in Ledgers : call = LedgerCall("ledger", ldg, ldg, EmptyPath, 0, "")
LedgerNext == DoMark
LedgerSpec == LedgerInit /\ [][LedgerNext]_vars

\* C23: markFileProcessed for a path that already has a ledger entry returns no
\* error (unless the statement itself fails) and leaves the entry's record
\* count and timestamp, and the rest of the ledger, as they were, whatever
\* record count the call passes; for a path without an entry it adds one.
C23_FirstWriterWins ==
    (call.op = "markFileProcessed" /\ call.err = "")
    => /\ call.before[call.filePath] # None => call.ldg = call.before
       /\ call.before[call.filePath] = None
          => /\ call.ldg[call.filePath] # None
             /\ call.ldg[call.filePath].record_count = call.recordCount
             /\ \A f \in Files \ {call.filePath} : call.ldg[f] = call.before[f]
\* a second call with another record count left the first entry in place
C23_Witness ==
    /\ call.op = "markFileProcessed" /\ call.err = ""
    /\ call.before[1] = [record_count |-> 2, processed_at |-> 1]
    /\ call.filePath = 1 /\ call.recordCount = 1
    /\ call.ldg[1] = [record_count |-> 2, processed_at |-> 1]

\* C24: if loading the config, connecting to the store or creating the tables
\* fails, the command exits non-zero without having discovered, parsed or
\* inserted any file, in single-file and in directory mode; a run gets past the
\* set-up only when none of the three failed.
SetUp == {"config", "connect", "tables"}
C24_State ==
    \A p \in Procs :
        proc[p].pc \in SetUp \cup {"file_parse", "discover"}
        => /\ ~proc[p].faulted
           /\ proc[p].files = <<>> /\ proc[p].records = <<>>
           /\ proc[p].outcome = NoOutcome
           /\ store = proc[p].store0 /\ ledger = proc[p].ledger0
C24_Step ==
    \A p \in Procs :
        (proc[p].pc \in SetUp /\ proc'[p] # proc[p])
        => /\ store' = store /\ ledger' = ledger
           /\ proc'[p].files = <<>> /\ proc'[p].records = <<>>
           /\ proc'[p].outcome = NoOutcome
           /\ proc'[p].processedFiles = 0 /\ proc'[p].totalRecords = 0
           /\ \/ proc'[p].pc = "exited" /\ proc'[p].exitCode = 1
              \/ /\ proc'[p].pc \in SetUp \cup {"file_parse", "discover"}
                 /\ ~proc'[p].faulted
C24_FatalSetUp == []C24_State /\ [][C24_Step]_vars
\* the second run, over a directory, died in the set-up and left the rows and
\* the ledger entry of the first run alone
C24_Witness ==
    /\ proc[Main].pc = "exited" /\ proc[Main].exitCode = 1
    /\ proc[Main].directory = {1, 2} /\ proc[Main].faulted
    /\ proc[Main].files = <<>> /\ proc[Main].run = 2
    /\ store[<<1, 1>>] = 1 /\ ledger[1] # None /\ ledger[2] = None

\* C25: within one invocation the files are processed one at a time in
\* discovery order: while file i is being processed every file before it is in a
\* terminal state and no file after it has been touched, the ledger check of
\* file i+1 follows the step that ends file i, and the store is only changed by
\* the insert of the one file being processed.
Terminal == {"Skipped"} \cup Processed \cup Failed
C25_State ==
    \A p \in Procs :
        LET r == proc[p] IN
        /\ InLoop(r)
           => /\ r.idx \in 1..Len(r.files)
              /\ r.filePath = r.files[r.idx]
              /\ \A j \in 1..Len(r.files) :
                    IF j < r.idx THEN r.outcome[r.files[j]] \in Terminal
                    ELSE r.outcome[r.files[j]] = "Discovered"
        /\ r.pc = "summary"
           => \A j \in 1..Len(r.files) : r.outcome[r.files[j]] \in Terminal
C25_Step ==
    \A p \in Procs :
        /\ (InLoop(proc[p]) /\ proc'[p] # proc[p])
           => /\ proc'[p].files = proc[p].files
              /\ \/ /\ proc'[p].idx = proc[p].idx
                    /\ proc'[p].filePath = proc[p].filePath
                    /\ proc'[p].outcome = proc[p].outcome
                 \/ /\ proc'[p].idx = proc[p].idx + 1
                    /\ proc'[p].outcome[proc[p].filePath] \in Terminal
                    /\ proc'[p].pc \in {"check", "summary"}
        /\ (proc'[p] # proc[p] /\ store' # store)
           => /\ proc[p].pc \in {"insert", "file_insert"}
              /\ \A row \in RowIds :
                    row[1] # proc[p].filePath => store'[row] = store[row]
C25_Sequential == []C25_State /\ [][C25_Step]_vars
\* the insert of the second file is in flight after the first file was ledgered
C25_Witness ==
    /\ proc[Main].pc = "insert" /\ proc[Main].idx = 2
    /\ proc[Main].files = <<1, 2>>
    /\ proc[Main].outcome[1] = "Ledgered" /\ proc[Main].outcome[2] = "Discovered"
    /\ Len(proc[Main].records) = 2

\* C26 as stated: a file whose ledger write failed after its insert in one
\* directory run is, in the next directory run over the same set, parsed and
\* inserted again, which leaves its rows in the store twice.
C26_Original ==
    TwoDirRuns =>
        \A f \in FirstRun.directory :
            FirstRun.outcome[f] = "Inserted"
            => /\ SecondRun.outcome[f] \in Processed
               /\ Added(NoRows, store, f, 2)

\* C26 amended: such a file has no ledger entry when the next directory run
\* over the same set starts, and that run does not skip it; unless its ledger
\* check or its insert fails in that run, the file is parsed and inserted
\* again, which leaves each of its rows in the store twice as often as the
\* first run added it (otherwise once).
C26_Reinserted ==
    TwoDirRuns =>
        \A f \in FirstRun.directory :
            FirstRun.outcome[f] = "Inserted"
            => /\ SecondRun.ledger0[f] = None
               /\ SecondRun.outcome[f] \in Processed \cup {"FailedCheck", "FailedInsert"}
               /\ SecondRun.outcome[f] \in Processed
                  => Added(FirstRun.store0, store, f, 2)
               /\ SecondRun.outcome[f] \in Failed
                  => Added(FirstRun.store0, store, f, 1)
C26_Witness ==
    /\ TwoDirRuns
    /\ FirstRun.outcome[1] = "Inserted"
    /\ SecondRun.ledger0[1] = None
    /\ SecondRun.outcome[1] = "Ledgered"
    /\ Len(Records(1)) = 2
    /\ store[<<1, 1>>] = 2 /\ store[<<1, 2>>] = 2

\* the line with columns 5-8 blanked and the columns past index 10 cut off
Essential(l) ==
    IF l.csvErr \/ Len(l.fields) < 11 THEN l
    ELSE Line(<<l.fields[1], l.fields[2], l.fields[3], l.fields[4], l.fields[5],
               "", "", "", "", l.fields[10], l.fields[11]>>)
\* the file with the usual header for its first line and only the essential
\* columns in its data lines
EssentialFile(c) ==
    [open |-> c.open,
     lines |-> <<Header>> \o [i \in 1..(Len(c.lines) - 1) |-> Essential(c.lines[i + 1])]]

\* C27: for a file of a first row followed by n well-formed rows parseCSV
\* returns n records in row order, record i taking prefecture, municipality,
\* address1, address2 and block/lot from columns 0-4 and latitude and longitude
\* from columns 9 and 10 of data row i; the first row yields no record whatever
\* it contains, and columns 5-8 and columns past index 10 do not influence the
\* result.
C27_Records ==
    (call.op = "parsed" /\ call.file.open /\ call.file.lines # <<>>
        /\ ~call.file.lines[1].csvErr)
    => /\ (\A i \in 1..Len(DataLines) : ParsableLine(DataLines[i]))
          => /\ call.parsed.err = ""
             /\ Len(call.parsed.records) = Len(DataLines)
             /\ \A i \in 1..Len(DataLines) :
                  LET f == DataLines[i].fields
                      r == call.parsed.records[i]
                  IN /\ r.Prefecture = f[1] /\ r.Municipality = f[2]
                     /\ r.Address1 = f[3] /\ r.Address2 = f[4]
                     /\ r.BlockLot = f[5]
                     /\ r.Lat = ParseFloat(f[10]).val
                     /\ r.Lon = ParseFloat(f[11]).val
       /\ call.parsed = parseCSV(EssentialFile(call.file))
\* a first line that looks like a data row, then a 13-column row and a usual one
C27_Witness ==
    /\ call.op = "parsed"
    /\ Len(call.file.lines) = 3
    /\ call.file.lines[1] = Row("Tokyo", "35.681236", "139.767125")
    /\ Len(call.file.lines[2].fields) = 13
    /\ Len(call.parsed.records) = 2
    /\ call.parsed.records[1].Prefecture = "Osaka"
    /\ call.parsed.records[1].BlockLot = "3"
    /\ call.parsed.records[1].Lat = Fin(346937370)
    /\ call.parsed.records[2].Prefecture = "Tokyo"
    /\ call.parsed.records[2].Lon = Fin(1397671250)

\* the files a run has counted in processedFiles
Counted(r) == {f \in Files : r.outcome[f] \in Processed}
RecordCounts == [f \in Files |-> Len(Records(f))]

\* C28: at every file boundary of a directory run totalRecords is the sum of
\* the record counts of the files counted in processedFiles and the number of
\* rows the run has added to the store; the three counters start at zero and
\* never decrease.
C28_State ==
    \A p \in Procs :
        LET r == proc[p] IN
        /\ (r.file = EmptyPath /\ r.pc \in {"check", "summary", "exited"}
              /\ r.directory # NoDirectory /\ r.outcome # NoOutcome)
           => /\ r.processedFiles = Cardinality(Counted(r))
              /\ r.totalRecords = SumOver(RecordCounts, Counted(r))
              /\ r.totalRecords = CountRows(store) - CountRows(r.store0)
              /\ r.failedFiles = CountOf(r, Failed)
        /\ r.pc \in SetUp \cup {"discover"}
           => r.totalRecords = 0 /\ r.processedFiles = 0 /\ r.failedFiles = 0
C28_Step ==
    \A p \in Procs :
        (proc[p].pc \notin {"idle", "exited"})
        => /\ proc'[p].totalRecords >= proc[p].totalRecords
           /\ proc'[p].processedFiles >= proc[p].processedFiles
           /\ proc'[p].failedFiles >= proc[p].failedFiles
C28_Counters == []C28_State /\ [][C28_Step]_vars
\* both files ingested: three records counted, three rows added
C28_Witness ==
    /\ proc[Main].pc = "summary"
    /\ proc[Main].processedFiles = 2 /\ proc[Main].failedFiles = 0
    /\ proc[Main].totalRecords = 3
    /\ CountRows(store) - CountRows(proc[Main].store0) = 3

\* the last two invocations: a successful single-file import, then a directory
\* run that got past discovery with that file in its directory
FileThenDir ==
    /\ proc[Main].pc = "exited"
    /\ Len(history) >= 2
    /\ FileDone(FirstRun)
    /\ SecondRun.file = EmptyPath
    /\ FirstRun.file \in SecondRun.directory
    /\ SecondRun.outcome # NoOutcome

\* C29: no step of a single-file run changes the ledger; after a successful
\* single-file import of a file that had no ledger entry, a directory run whose
\* discovery includes the path does not skip it.
C29_State ==
    FileThenDir
    => /\ SecondRun.ledger0 = FirstRun.ledger0
       /\ FirstRun.ledger0[FirstRun.file] = None
          => /\ SecondRun.outcome[FirstRun.file] # "Skipped"
             /\ DirDone(SecondRun)
                => SecondRun.outcome[FirstRun.file] \in Processed \cup Failed
C29_Step ==
    \A p \in Procs :
        (proc'[p] # proc[p] /\ (proc[p].file # EmptyPath \/ proc'[p].file # EmptyPath))
        => ledger' = ledger
C29_NoLedgerEntry == []C29_State /\ [][C29_Step]_vars
\* file 1 was imported on its own and then again by the directory run
C29_Witness ==
    /\ FileThenDir
    /\ FirstRun.file = 1 /\ Len(FirstRun.records) = 2
    /\ SecondRun.ledger0[1] = None
    /\ SecondRun.outcome[1] = "Ledgered"
    /\ store[<<1, 1>>] = 2

\* C30: when the ledger check of a file itself fails in directory mode, the
\* file is counted in failedFiles, is neither parsed nor inserted nor ledgered,
\* and the run goes on with the next file (or to the summary after the last).
C30_Step ==
    \A p \in Procs :
        LET f == proc[p].filePath IN
        (/\ proc[p].pc = "check"
         /\ proc'[p] # proc[p]
         /\ proc'[p].outcome[f] \notin {"Skipped", "Discovered"})
        => /\ proc'[p].outcome[f] = "FailedCheck"
           /\ proc'[p].failedFiles = proc[p].failedFiles + 1
           /\ proc'[p].processedFiles = proc[p].processedFiles
           /\ proc'[p].totalRecords = proc[p].totalRecords
           /\ proc'[p].skippedFiles = proc[p].skippedFiles
           /\ proc'[p].records = <<>>
           /\ store' = store /\ ledger' = ledger
           /\ IF proc[p].idx < Len(proc[p].files)
              THEN /\ proc'[p].pc = "check"
                   /\ proc'[p].filePath = proc[p].files[proc[p].idx + 1]
              ELSE proc'[p].pc = "summary"
C30_Final ==
    \A p \in Procs :
        DirDone(proc[p])
        => \A f \in proc[p].directory :
              proc[p].outcome[f] = "FailedCheck"
              => /\ ledger[f] = proc[p].ledger0[f]
                 /\ \A i \in 1..MaxRows : store[<<f, i>>] = proc[p].store0[<<f, i>>]
C30_CheckFailure == []C30_Final /\ [][C30_Step]_vars
\* the check of the first file failed and the second file was ingested
C30_Witness ==
    /\ DirDone(proc[Main])
    /\ proc[Main].files = <<1, 2>>
    /\ proc[Main].outcome[1] = "FailedCheck" /\ proc[Main].outcome[2] = "Ledgered"
    /\ proc[Main].failedFiles = 1 /\ proc[Main].processedFiles = 1
    /\ store[<<1, 1>>] = 0 /\ ledger[1] = None /\ store[<<2, 1>>] = 1

\* ------------------------------------------------------------ files without data rows
\* the main specification over files with no line, a header only, two rows
EdgeFiles == {FileEmpty, FileHeaderOnly, FileTwoRows}
EdgeInit ==
    /\ content \in [Files -> EdgeFiles]
    /\ store   = [r \in RowIds |-> 0]
    /\ ledger  = [f \in Files |-> None]
    /\ proc    = [p \in Procs |-> Idle]
    /\ runs    = 0
    /\ history = <<>>
    /\ call    = NoCall
EdgeSpec == EdgeInit /\ [][Next]_vars

\* C31 as stated: in a directory run a header-only file is inserted as an
\* empty batch, ledgered with record count 0 and counted in processedFiles, and
\* a file with no line at all fails parsing and is counted in failedFiles.
C31_Original ==
    \A p \in Procs :
        DirDone(proc[p])
        => \A f \in proc[p].directory :
              /\ content[f] = FileHeaderOnly
                 => /\ proc[p].outcome[f] = "Ledgered"
                    /\ ledger[f] # None /\ ledger[f].record_count = 0
              /\ content[f] = FileEmpty => proc[p].outcome[f] = "FailedParse"

\* C31 amended: a header-only file parses to zero records and a file with no
\* line fails parsing.  In a directory run a header-only file that has no
\* ledger entry and whose ledger check succeeds is inserted as an empty batch
\* (the store is unchanged); if the insert succeeds it is counted in
\* processedFiles with totalRecords unchanged and, if the ledger write succeeds
\* too, ledgered with record count 0.  A file with no line whose ledger check
\* succeeds is counted in failedFiles and is neither inserted nor ledgered.
C31_State ==
    /\ \A f \in Files :
         /\ content[f] = FileHeaderOnly
            => /\ parseCSV(content[f]) = ParseOk(<<>>)
               /\ ledger[f] # None => ledger[f].record_count = 0
               /\ \A i \in 1..MaxRows : store[<<f, i>>] = 0
         /\ content[f] = FileEmpty
            => /\ parseCSV(content[f]) = ParseErr("failed to read header", 0)
               /\ ledger[f] = None
               /\ \A i \in 1..MaxRows : store[<<f, i>>] = 0
    /\ \A p \in Procs :
         (DirDone(proc[p]) /\ ~proc[p].faulted)
         => \A f \in proc[p].directory :
               /\ (content[f] = FileHeaderOnly /\ proc[p].ledger0[f] = None)
                  => /\ proc[p].outcome[f] = "Ledgered"
                     /\ ledger[f] = [record_count |-> 0, processed_at |-> proc[p].run]
               /\ content[f] = FileEmpty => proc[p].outcome[f] = "FailedParse"
C31_Step ==
    \A p \in Procs :
        LET r == proc[p]
            f == proc[p].filePath
        IN
        (InLoop(r) /\ proc'[p] # r)
        => /\ (content[f] = FileHeaderOnly /\ r.pc = "parse")
              => /\ proc'[p].pc = "insert" /\ proc'[p].records = <<>>
                 /\ proc'[p].failedFiles = r.failedFiles
           /\ (content[f] = FileHeaderOnly /\ r.pc = "insert")
              => /\ store' = store
                 /\ proc'[p].pc = "mark" \/ proc'[p].outcome[f] = "FailedInsert"
           /\ (content[f] = FileHeaderOnly /\ r.pc = "mark")
              => /\ proc'[p].processedFiles = r.processedFiles + 1
                 /\ proc'[p].totalRecords = r.totalRecords
                 /\ proc'[p].failedFiles = r.failedFiles
                 /\ proc'[p].outcome[f] = "Ledgered"
                    => ledger'[f] = [record_count |-> 0, processed_at |-> r.run]
           /\ (content[f] = FileEmpty /\ r.pc = "parse")
              => /\ proc'[p].outcome[f] = "FailedParse"
                 /\ proc'[p].failedFiles = r.failedFiles + 1
                 /\ proc'[p].processedFiles = r.processedFiles
                 /\ proc'[p].totalRecords = r.totalRecords
                 /\ store' = store /\ ledger' = ledger
C31_NoDataRows == []C31_State /\ [][C31_Step]_vars
\* a file with no line failed, the header-only file after it was ledgered with
\* record count 0
C31_Witness ==
    /\ DirDone(proc[Main]) /\ ~proc[Main].faulted
    /\ content[1] = FileEmpty /\ content[2] = FileHeaderOnly
    /\ proc[Main].files = <<1, 2>>
    /\ proc[Main].outcome[1] = "FailedParse" /\ proc[Main].outcome[2] = "Ledgered"
    /\ ledger[2] # None /\ ledger[2].record_count = 0
    /\ proc[Main].processedFiles = 1 /\ proc[Main].failedFiles = 1
    /\ proc[Main].totalRecords = 0
    /\ CountRows(store) = 0

\* ------------------------------------------------------------ two invocations at once
\* two invocations of the command, each started once on the same directory,
\* interleave step by step against the same store; a file may be rewritten
\* while they run
ConcFiles == {FileOneRow, FileTwoRows}
ConcDir == {1, 2}              \* the directory both invocations are given
ConcInit ==
    /\ content \in [Files -> ConcFiles]
    /\ store   = [r \in RowIds |-> 0]
    /\ ledger  = [f \in Files |-> None]
    /\ proc    = [p \in Procs |-> Idle]
    /\ runs    = 0
    /\ history = <<>>
    /\ call    = NoCall
ConcStart(p) ==
    /\ proc[p].pc = "idle"
    /\ Start(p)
    /\ proc'[p].pc = "config"
    /\ proc'[p].directory = ConcDir
ConcStep(p) ==
    \/ LoadConfig(p) \/ Connect(p) \/ CreateTables(p)
    \/ Discover(p) \/ Check(p) \/ Parse(p) \/ Insert(p) \/ Mark(p) \/ Summary(p)
Rewrite ==
    /\ \E f \in ConcDir, c \in ConcFiles : content' = [content EXCEPT ![f] = c]
    /\ content' # content
    /\ UNCHANGED <<store, ledger, proc, runs, history, call>>
ConcNext == (\E p \in Procs : ConcStart(p) \/ ConcStep(p)) \/ Rewrite
ConcSpec == ConcInit /\ [][ConcNext]_vars

\* the invocation p is at its markFileProcessed call for the path f
Marking(p, f) == proc[p].pc = "mark" /\ proc[p].filePath = f
\* ... and the call returns without an error in this step
Marked(p, f)  == Marking(p, f) /\ proc'[p] # proc[p] /\ proc'[p].outcome[f] = "Ledgered"

\* C32: in every reachable state, also when two directory invocations
\* interleave on the same file set and a file is rewritten meanwhile, the
\* ledger holds at most one entry per file path, written by an invocation whose
\* markFileProcessed call for that path returned no error; an entry is created
\* only by such a call, with the record count and the time of that call, and
\* once it exists no step changes or removes it, so it keeps the record count
\* of the first successful call whatever later calls pass.
C32_State ==
    /\ ledger \in Ledgers
    /\ \A f \in Files : ledger[f] # None
         => \E p \in Procs : /\ proc[p].run = ledger[f].processed_at
                             /\ proc[p].outcome[f] = "Ledgered"
C32_Step ==
    \A f \in Files :
      /\ ledger[f] # None => ledger'[f] = ledger[f]
      /\ (ledger[f] = None /\ ledger'[f] # None)
         => \E p \in Procs :
              /\ Marked(p, f)
              /\ ledger'[f] = [record_count |-> Len(proc[p].records),
                               processed_at |-> proc[p].run]
      /\ \A p \in Procs : Marked(p, f) => ledger'[f] # None
C32_OneEntry == []C32_State /\ [][C32_Step]_vars
\* both invocations passed the ledger check of path 1 before either wrote the
\* entry; the first wrote it with two records, the file was rewritten, and the
\* second has just made its call with one record: the entry still says two
C32_Witness ==
    /\ proc[1].outcome[1] = "Ledgered" /\ proc[1].pc # "exited"
    /\ proc[2].outcome[1] = "Ledgered" /\ proc[2].idx = 2
    /\ proc[2].totalRecords = 1 /\ proc[2].processedFiles = 1
    /\ ledger[1] = [record_count |-> 2, processed_at |-> proc[1].run]
    /\ content[1] = FileOneRow
    /\ CountRows(store) = 3

====
